---- MODULE Spec2Model ----
(***************************************************************************)
(* Flock engine of boids-sfml (src/flock/flock.cpp): construction, the     *)
(* per-step evolution of the predator and of the regular birds, neighbour  *)
(* discovery and the velocity statistics.                                  *)
(*                                                                         *)
(* Scalars are fixed-point numbers: a length or a speed is an integer      *)
(* count of 1/Unit, a rule weight or an integration scale an integer count *)
(* of 1/WUnit.  Every product and quotient is rounded to that resolution.  *)
(* Vector2, Bird, get_angle and the steering rules of rules.hpp are not    *)
(* part of flock.cpp; they are modelled from the written specification.    *)
(***************************************************************************)
EXTENDS Integers, Sequences, FiniteSets, TLC

VARIABLES
    engine,      \* outcome of the constructor: "none", "ok", "aborted", "length_error"
    opts,        \* the FlockOptions the engine was constructed with
    birds,       \* birds_
    predator,    \* predator_
    pc,          \* position inside Flock::evolve
    counter,     \* the local counter of Flock::evolve
    neighbors,   \* the local neighbors of the lambda of Flock::evolve
    stats,       \* the last value returned by calculate_statistics
    steps,       \* number of evolve calls started
    pre          \* history: birds_ and predator_ when the last evolve was entered

vars == <<engine, opts, birds, predator, pc, counter, neighbors, stats, steps, pre>>

-----------------------------------------------------------------------------
(* Bounds of the model *)

MaxBirds == 2
MaxSteps == 2

-----------------------------------------------------------------------------
(* Fixed-point scalars *)

Unit == 10
WUnit == 1000

Abs(a) == IF a < 0 THEN -a ELSE a

\* a / b rounded to the nearest integer, ties away from zero (b > 0)
RoundDiv(a, b) ==
    IF a >= 0 THEN (2 * a + b) \div (2 * b) ELSE -((2 * (-a) + b) \div (2 * b))

\* a scalar times a weight given in 1/WUnit
Mul(a, w) == RoundDiv(a * w, WUnit)

RECURSIVE SqrtSearch(_, _, _)
SqrtSearch(n, lo, hi) ==
    IF lo >= hi THEN lo
    ELSE LET mid == (lo + hi + 1) \div 2
         IN  IF mid * mid <= n THEN SqrtSearch(n, mid, hi)
             ELSE SqrtSearch(n, lo, mid - 1)

\* floor of the square root
ISqrt(n) ==
    SqrtSearch(n, 0, IF n < 256 THEN 15
                     ELSE IF n < 65536 THEN 255
                     ELSE IF n < 16777216 THEN 4095 ELSE 46340)

-----------------------------------------------------------------------------
(* Vector2 and Bird *)

Vector2(a, b) == [x |-> a, y |-> b]
Zero == Vector2(0, 0)
Bird(p, v) == [position |-> p, velocity |-> v]
DefaultBird == Bird(Zero, Zero)

VAdd(a, b) == Vector2(a.x + b.x, a.y + b.y)
VSub(a, b) == Vector2(a.x - b.x, a.y - b.y)
VScale(a, w) == Vector2(Mul(a.x, w), Mul(a.y, w))
VDiv(a, n) == Vector2(RoundDiv(a.x, n), RoundDiv(a.y, n))
Dot(a, b) == a.x * b.x + a.y * b.y
Cross(a, b) == a.x * b.y - a.y * b.x
Mag2(a) == Dot(a, a)
magnitude(a) == ISqrt(Mag2(a))

\* get_angle(a, b) < view_angle, for a view angle given in degrees.  The
\* angle of a zero vector is 0.  Decided exactly for the thresholds 90 and
\* 180 and for every threshold above 180 or not above 0.
AngleLess(a, b, view_angle) ==
    IF view_angle <= 0 THEN FALSE
    ELSE IF a = Zero \/ b = Zero THEN TRUE
    ELSE IF view_angle > 180 THEN TRUE
    ELSE IF view_angle = 180 THEN ~(Cross(a, b) = 0 /\ Dot(a, b) < 0)
    ELSE Dot(a, b) > 0


-----------------------------------------------------------------------------
(* The steering rules of rules.hpp *)

RECURSIVE SumPositions(_), SumVelocities(_)
SumPositions(bs) ==
    IF bs = <<>> THEN Zero ELSE VAdd(Head(bs).position, SumPositions(Tail(bs)))
SumVelocities(bs) ==
    IF bs = <<>> THEN Zero ELSE VAdd(Head(bs).velocity, SumVelocities(Tail(bs)))

RECURSIVE SumRepulsion(_, _, _)
SumRepulsion(nb, bird, separation_distance) ==
    IF nb = <<>> THEN Zero
    ELSE LET away == VSub(bird.position, Head(nb).position)
             rest == SumRepulsion(Tail(nb), bird, separation_distance)
         IN  IF magnitude(away) < separation_distance THEN VAdd(away, rest) ELSE rest

apply_separation(nb, bird, separation_distance, separation) ==
    VScale(SumRepulsion(nb, bird, separation_distance), separation)

apply_alignment(nb, bird, alignment) ==
    VScale(VSub(VDiv(SumVelocities(nb), Len(nb)), bird.velocity), alignment)

apply_cohesion(nb, bird, cohesion) ==
    VScale(VSub(VDiv(SumPositions(nb), Len(nb)), bird.position), cohesion)

\* strength of the repulsion from the predator, in 1/WUnit
PredatorRepulsion == 1000

avoid_predator(bs, bird, index, pred, separation_distance, view_angle) ==
    LET toward == VSub(pred.position, bird.position)
    IN  IF /\ magnitude(toward) < separation_distance
           /\ AngleLess(toward, bird.velocity, view_angle)
        THEN VScale(VSub(bird.position, pred.position), PredatorRepulsion)
        ELSE Zero

\* a zero velocity has no direction and is left alone
avoid_speeding(bird, max_speed, min_speed) ==
    LET v == bird.velocity
        speed == magnitude(v)
        rescaled(target) ==
            Vector2(RoundDiv(v.x * target, speed), RoundDiv(v.y * target, speed))
    IN  IF Mag2(v) > max_speed * max_speed
            THEN [bird EXCEPT !.velocity = rescaled(max_speed)]
        ELSE IF speed > 0 /\ Mag2(v) < min_speed * min_speed
            THEN [bird EXCEPT !.velocity = rescaled(min_speed)]
        ELSE bird

\* width of the band along each edge in which a bird is turned back, and the
\* velocity it gains there per step
Margin == 30
TurnFactor == 5

avoid_boundaries(bird, canvas_width, canvas_height) ==
    LET p == bird.position
        dx == IF p.x < Margin THEN TurnFactor
              ELSE IF p.x > canvas_width - Margin THEN -TurnFactor ELSE 0
        dy == IF p.y < Margin THEN TurnFactor
              ELSE IF p.y > canvas_height - Margin THEN -TurnFactor ELSE 0
    IN  [bird EXCEPT !.velocity = VAdd(bird.velocity, Vector2(dx, dy))]

-----------------------------------------------------------------------------
(* Flock::get_neighbors *)

\* get_neighbors without the test distance_between_birds > 0
RECURSIVE get_neighbors_with_self(_, _, _)
get_neighbors_with_self(bs, bird, o) ==
    IF bs = <<>> THEN <<>>
    ELSE LET other == Head(bs)
             distance_between_birds == magnitude(VSub(other.position, bird.position))
             rest == get_neighbors_with_self(Tail(bs), bird, o)
         IN  IF /\ distance_between_birds < o.distance
                /\ AngleLess(VSub(other.position, bird.position), bird.velocity,
                             o.view_angle)
             THEN <<other>> \o rest
             ELSE rest

RECURSIVE get_neighbors(_, _, _)
get_neighbors(bs, bird, o) ==
    IF bs = <<>> THEN <<>>
    ELSE LET other == Head(bs)
             distance_between_birds == magnitude(VSub(other.position, bird.position))
             rest == get_neighbors(Tail(bs), bird, o)
         IN  IF /\ distance_between_birds < o.distance
                /\ distance_between_birds > 0
                /\ AngleLess(VSub(other.position, bird.position), bird.velocity,
                             o.view_angle)
             THEN <<other>> \o rest
             ELSE rest

-----------------------------------------------------------------------------
(* Flock::evolve_predator *)

PredatorMaxSpeed == 15 * Unit
PredatorMinSpeed == 2 * Unit
PredatorAlignment == 1
PredatorScale == 800

evolve_predator(bs, pred, o) ==
    IF ~o.with_predator THEN pred
    ELSE LET nb == get_neighbors(bs, pred, o)
             p1 == IF Len(nb) # 0
                   THEN [pred EXCEPT !.velocity =
                            VAdd(@, apply_cohesion(nb, pred, o.cohesion * 2))]
                   ELSE pred
             p2 == IF Len(nb) # 0
                   THEN [p1 EXCEPT !.velocity =
                            VAdd(@, apply_alignment(nb, p1, PredatorAlignment))]
                   ELSE p1
             p3 == avoid_speeding(p2, PredatorMaxSpeed, PredatorMinSpeed)
             p4 == avoid_boundaries(p3, o.canvas_width, o.canvas_height)
         IN  [p4 EXCEPT !.position = VAdd(@, VScale(p4.velocity, PredatorScale))]

-----------------------------------------------------------------------------
(* The body of the lambda of Flock::evolve, one statement group at a time *)
(* Flock::evolve is a single synchronous call.  The model walks through it  *)
(* statement group by statement group (pc), so that the order of its reads  *)
(* and writes is part of the state; nothing else runs while pc # "idle".    *)

\* flocking with the test neighbors.size() > 1 in place of != 0
flocking_needs_two(nb, bird, o) ==
    IF Len(nb) > 1
    THEN LET b1 == [bird EXCEPT !.velocity =
                      VAdd(@, apply_separation(nb, bird, o.separation_distance,
                                               o.separation))]
             b2 == [b1 EXCEPT !.velocity =
                      VAdd(@, apply_alignment(nb, b1, o.alignment))]
         IN  [b2 EXCEPT !.velocity = VAdd(@, apply_cohesion(nb, b2, o.cohesion))]
    ELSE bird

flocking(nb, bird, o) ==
    IF Len(nb) # 0
    THEN LET b1 == [bird EXCEPT !.velocity =
                      VAdd(@, apply_separation(nb, bird, o.separation_distance,
                                               o.separation))]
             b2 == [b1 EXCEPT !.velocity =
                      VAdd(@, apply_alignment(nb, b1, o.alignment))]
         IN  [b2 EXCEPT !.velocity = VAdd(@, apply_cohesion(nb, b2, o.cohesion))]
    ELSE bird

\* predator_avoidance without the test of with_predator_
predator_avoidance_unconditional(bs, bird, index, pred, o) ==
    [bird EXCEPT !.velocity =
        VAdd(@, avoid_predator(bs, bird, index, pred, o.separation_distance,
                               o.view_angle))]

predator_avoidance(bs, bird, index, pred, o) ==
    IF o.with_predator
    THEN [bird EXCEPT !.velocity =
            VAdd(@, avoid_predator(bs, bird, index, pred, o.separation_distance,
                                   o.view_angle))]
    ELSE bird

max_speed == 5 * Unit
min_speed == 2 * Unit

speed_limits(bird) == avoid_speeding(bird, max_speed, min_speed)

boundaries(bird, o) == avoid_boundaries(bird, o.canvas_width, o.canvas_height)

BirdScale == 900

\* integrate with the scale of the predator
integrate_predator_scale(bird) ==
    [bird EXCEPT !.position = VAdd(@, VScale(bird.velocity, PredatorScale))]

integrate(bird) == [bird EXCEPT !.position = VAdd(@, VScale(bird.velocity, BirdScale))]

-----------------------------------------------------------------------------
(* Flock::size and Flock::calculate_statistics *)

size == Len(birds)

NoStats == [valid |-> FALSE, nan |-> FALSE, mean_velocity |-> Zero,
            stdev_velocity |-> Zero]
NaNStats == [valid |-> TRUE, nan |-> TRUE, mean_velocity |-> Zero,
             stdev_velocity |-> Zero]

\* a squared difference, in 1/Unit
Square(d) == RoundDiv(d * d, Unit)

RECURSIVE SumSquares(_, _)
SumSquares(bs, mean) ==
    IF bs = <<>> THEN Zero
    ELSE VAdd(Vector2(Square(Head(bs).velocity.x - mean.x),
                      Square(Head(bs).velocity.y - mean.y)),
              SumSquares(Tail(bs), mean))

\* the square root of a scalar given in 1/Unit
Sqrt(s) == ISqrt(Unit * s)

\* calculate_statistics with the sample variance (divide by N - 1)
calculate_statistics_sample(bs) ==
    IF Len(bs) = 0 \/ Len(bs) - 1 = 0 THEN NaNStats
    ELSE LET mean_velocity == VDiv(SumVelocities(bs), Len(bs))
             sq == VDiv(SumSquares(bs, mean_velocity), Len(bs) - 1)
         IN  [valid |-> TRUE, nan |-> FALSE, mean_velocity |-> mean_velocity,
              stdev_velocity |-> Vector2(Sqrt(sq.x), Sqrt(sq.y))]

calculate_statistics(bs) ==
    IF Len(bs) = 0 THEN NaNStats
    ELSE LET mean_velocity == VDiv(SumVelocities(bs), Len(bs))
             sq == VDiv(SumSquares(bs, mean_velocity), Len(bs))
         IN  [valid |-> TRUE, nan |-> FALSE, mean_velocity |-> mean_velocity,
              stdev_velocity |-> Vector2(Sqrt(sq.x), Sqrt(sq.y))]

-----------------------------------------------------------------------------
(* Inputs: the options handed to the constructor and the values drawn from  *)
(* the random distributions of the constructor                              *)

BaseOptions ==
    [number |-> 1, separation |-> 500, alignment |-> 500, cohesion |-> 500,
     distance |-> 50, separation_distance |-> 40, with_predator |-> FALSE,
     view_angle |-> 360, canvas_height |-> 200, canvas_width |-> 200]

ValidOptions ==
    { [BaseOptions EXCEPT !.number = n, !.separation = w, !.alignment = w,
                          !.cohesion = w, !.with_predator = p, !.view_angle = a] :
        n \in 1..MaxBirds, w \in {0, 500}, p \in BOOLEAN, a \in {90, 360} }

InvalidOptions ==
    { [BaseOptions EXCEPT !.number = 0],
      [BaseOptions EXCEPT !.number = -1],
      [BaseOptions EXCEPT !.separation = -500],
      [BaseOptions EXCEPT !.alignment = -500],
      [BaseOptions EXCEPT !.cohesion = -500],
      [BaseOptions EXCEPT !.distance = -10],
      [BaseOptions EXCEPT !.separation_distance = -10] }

Options == ValidOptions \cup InvalidOptions

\* positions lie in [0, canvas_width) x [0, canvas_height), velocity
\* components in [-5, 5]
PositionSamples == { Vector2(20, 20), Vector2(100, 100), Vector2(130, 100) }
VelocitySamples == { Vector2(-30, 0), Vector2(10, 40) }
BirdSamples == { Bird(p, v) : p \in PositionSamples, v \in VelocitySamples }
PredatorSamples == { Bird(Vector2(100, 140), Vector2(0, -40)) }

-----------------------------------------------------------------------------
(* Flock::Flock *)

\* the condition of the assert
AssertHolds(o) ==
    /\ o.number > 0
    /\ o.separation >= 0
    /\ o.alignment >= 0
    /\ o.cohesion >= 0
    /\ o.distance >= 0
    /\ o.separation_distance >= 0

\* The outcome of the constructor.  The assert ends the process in a build
\* that keeps it and is compiled out under NDEBUG; without it a negative
\* number reaches birds_.reserve, which throws std::length_error.
Outcome(o, ndebug) ==
    IF ~ndebug /\ ~AssertHolds(o) THEN "aborted"
    ELSE IF o.number < 0 THEN "length_error"
    ELSE "ok"

Snapshot(bs, pred) == [birds |-> bs, predator |-> pred]

Init ==
    /\ engine = "none"
    /\ opts = BaseOptions
    /\ birds = <<>>
    /\ predator = DefaultBird
    /\ pc = "idle"
    /\ counter = 0
    /\ neighbors = <<>>
    /\ stats = NoStats
    /\ steps = 0
    /\ pre = Snapshot(<<>>, DefaultBird)

\* Construct with the predator appended to birds_
ConstructStoringPredator ==
    /\ engine = "none"
    /\ \E o \in Options, ndebug \in BOOLEAN :
          /\ opts' = o
          /\ engine' = Outcome(o, ndebug)
          /\ IF Outcome(o, ndebug) = "ok"
             THEN \E bs \in [1..o.number -> BirdSamples], p \in PredatorSamples :
                    /\ birds' = IF o.with_predator THEN Append(bs, p) ELSE bs
                    /\ predator' = IF o.with_predator THEN p ELSE DefaultBird
                    /\ pre' = Snapshot(bs, IF o.with_predator THEN p ELSE DefaultBird)
             ELSE UNCHANGED <<birds, predator, pre>>
    /\ UNCHANGED <<pc, counter, neighbors, stats, steps>>

Construct ==
    /\ engine = "none"
    /\ \E o \in Options, ndebug \in BOOLEAN :
          /\ opts' = o
          /\ engine' = Outcome(o, ndebug)
          /\ IF Outcome(o, ndebug) = "ok"
             THEN \E bs \in [1..o.number -> BirdSamples], p \in PredatorSamples :
                    /\ birds' = bs
                    /\ predator' = IF o.with_predator THEN p ELSE DefaultBird
                    /\ pre' = Snapshot(bs, IF o.with_predator THEN p ELSE DefaultBird)
             ELSE UNCHANGED <<birds, predator, pre>>
    /\ UNCHANGED <<pc, counter, neighbors, stats, steps>>

-----------------------------------------------------------------------------
(* Flock::evolve *)

\* the bird the lambda is running on
Current == birds[counter + 1]

\* EvolveBegin with evolve_predator() left for after the loop
EvolveBeginPredatorLast ==
    /\ engine = "ok"
    /\ pc = "idle"
    /\ steps < MaxSteps
    /\ pre' = Snapshot(birds, predator)
    /\ counter' = 0
    /\ pc' = IF Len(birds) = 0 THEN "idle" ELSE "neighbors"
    /\ steps' = steps + 1
    /\ neighbors' = <<>>
    /\ stats' = NoStats
    /\ UNCHANGED <<engine, opts, birds, predator>>

\* evolve_predator(); int counter = 0; and the entry of for_each
EvolveBegin ==
    /\ engine = "ok"
    /\ pc = "idle"
    /\ steps < MaxSteps
    /\ pre' = Snapshot(birds, predator)
    /\ predator' = evolve_predator(birds, predator, opts)
    /\ counter' = 0
    /\ pc' = IF Len(birds) = 0 THEN "idle" ELSE "neighbors"
    /\ steps' = steps + 1
    /\ neighbors' = <<>>
    /\ stats' = NoStats
    /\ UNCHANGED <<engine, opts, birds>>

GetNeighbors ==
    /\ pc = "neighbors"
    /\ neighbors' = get_neighbors(birds, Current, opts)
    /\ pc' = "rules"
    /\ UNCHANGED <<engine, opts, birds, predator, counter, stats, steps, pre>>

ApplyRules ==
    /\ pc = "rules"
    /\ birds' = [birds EXCEPT ![counter + 1] = flocking(neighbors, @, opts)]
    /\ pc' = "predator"
    /\ UNCHANGED <<engine, opts, predator, counter, neighbors, stats, steps, pre>>

AvoidPredator ==
    /\ pc = "predator"
    /\ birds' = [birds EXCEPT ![counter + 1] =
                    predator_avoidance(birds, @, counter, predator, opts)]
    /\ pc' = "speeding"
    /\ UNCHANGED <<engine, opts, predator, counter, neighbors, stats, steps, pre>>

AvoidSpeeding ==
    /\ pc = "speeding"
    /\ birds' = [birds EXCEPT ![counter + 1] = speed_limits(@)]
    /\ pc' = "boundaries"
    /\ UNCHANGED <<engine, opts, predator, counter, neighbors, stats, steps, pre>>

AvoidBoundaries ==
    /\ pc = "boundaries"
    /\ birds' = [birds EXCEPT ![counter + 1] = boundaries(@, opts)]
    /\ pc' = "integrate"
    /\ UNCHANGED <<engine, opts, predator, counter, neighbors, stats, steps, pre>>

\* bird.position += bird.velocity * 0.9; ++counter; and the loop test
Integrate ==
    /\ pc = "integrate"
    /\ birds' = [birds EXCEPT ![counter + 1] = integrate(@)]
    /\ counter' = counter + 1
    /\ pc' = IF counter + 1 < Len(birds) THEN "neighbors" ELSE "idle"
    /\ UNCHANGED <<engine, opts, predator, neighbors, stats, steps, pre>>

CalculateStatistics ==
    /\ engine = "ok"
    /\ pc = "idle"
    /\ stats' = calculate_statistics(birds)
    /\ UNCHANGED <<engine, opts, birds, predator, pc, counter, neighbors, steps, pre>>

Next ==
    \/ Construct
    \/ EvolveBegin
    \/ GetNeighbors
    \/ ApplyRules
    \/ AvoidPredator
    \/ AvoidSpeeding
    \/ AvoidBoundaries
    \/ Integrate
    \/ CalculateStatistics

Spec == Init /\ [][Next]_vars

-----------------------------------------------------------------------------
(* What the claims are stated with *)

\* the bird being processed, as it stood when evolve was entered
Subject0 == pre.birds[counter + 1]

\* inside the lambda, past the named statement group
Processing == engine = "ok" /\ pc # "idle"
StepDone == engine = "ok" /\ pc = "idle" /\ steps > 0

\* the three flocking deltas accumulated one after the other, as written
AfterRules(b, nb) ==
    IF nb = <<>> THEN b
    ELSE LET v1 == VAdd(b.velocity,
                        apply_separation(nb, b, opts.separation_distance,
                                         opts.separation))
             v2 == VAdd(v1, apply_alignment(nb, Bird(b.position, v1), opts.alignment))
             v3 == VAdd(v2, apply_cohesion(nb, Bird(b.position, v2), opts.cohesion))
         IN  Bird(b.position, v3)

\* the predator after its own update of this step
UpdatedPredator == evolve_predator(pre.birds, pre.predator, opts)

AfterPredator(b, nb, pred) ==
    LET r == AfterRules(b, nb)
    IN  IF opts.with_predator
        THEN Bird(r.position,
                  VAdd(r.velocity,
                       avoid_predator(birds, r, counter, pred,
                                      opts.separation_distance, opts.view_angle)))
        ELSE r

AfterSpeeding(b, nb, pred) == avoid_speeding(AfterPredator(b, nb, pred), 5 * Unit, 2 * Unit)

AfterBoundaries(b, nb, pred) ==
    avoid_boundaries(AfterSpeeding(b, nb, pred), opts.canvas_width, opts.canvas_height)

\* velocity * 0.9
Moved(b) == Bird(VAdd(b.position, VScale(b.velocity, (9 * WUnit) \div 10)), b.velocity)

\* what makes a member of the population a neighbour of subject
Qualifies(subject, other) ==
    LET offset == VSub(other.position, subject.position)
    IN  /\ Mag2(offset) > 0
        /\ opts.distance > 0
        /\ Mag2(offset) < opts.distance * opts.distance
        /\ AngleLess(offset, subject.velocity, opts.view_angle)

ExactNeighbors(subject) ==
    LET nb == get_neighbors(birds, subject, opts)
    IN  /\ nb = SelectSeq(birds, LAMBDA other : Qualifies(subject, other))
        /\ \A k \in 1..Len(nb) : nb[k] # subject

\* a bird away from the edges, with a speed within the regular bounds
Interior(b) ==
    /\ b.position.x >= Margin
    /\ b.position.x <= opts.canvas_width - Margin
    /\ b.position.y >= Margin
    /\ b.position.y <= opts.canvas_height - Margin

SpeedWithinBounds(b) ==
    /\ Mag2(b.velocity) >= (2 * Unit) * (2 * Unit)
    /\ Mag2(b.velocity) <= (5 * Unit) * (5 * Unit)

C7_Case ==
    /\ StepDone
    /\ Len(birds) = 1
    /\ ~opts.with_predator
    /\ SpeedWithinBounds(pre.birds[1])
    /\ Interior(pre.birds[1])

\* every bird has the velocity of the first
SameVelocity == \A i \in 1..Len(birds) : birds[i].velocity = birds[1].velocity

-----------------------------------------------------------------------------
(* C1: within one evolve, the neighbours found for every bird are those     *)
(* get_neighbors returns on the population as it stood when evolve was      *)
(* entered.                                                                 *)
C1_NeighborsFromPreStepPopulation ==
    (Processing /\ pc # "neighbors")
        => neighbors = get_neighbors(pre.birds, Subject0, opts)

(* C2: with a predator, the predator is fully updated before the first bird *)
(* is processed, and every bird's avoidance delta of the step is computed   *)
(* from the updated predator.                                               *)
C2_PredatorUpdatedFirst ==
    (Processing /\ opts.with_predator)
        => /\ predator = UpdatedPredator
           /\ pc = "speeding"
                => Current = AfterPredator(Subject0, neighbors, UpdatedPredator)

C2_Witness ==
    /\ Processing
    /\ opts.with_predator
    /\ pc = "speeding"
    /\ counter = 0
    /\ UpdatedPredator # pre.predator
    /\ AfterPredator(Subject0, neighbors, UpdatedPredator).velocity
         # AfterRules(Subject0, neighbors).velocity
    /\ AfterPredator(Subject0, neighbors, UpdatedPredator)
         # AfterPredator(Subject0, neighbors, pre.predator)

(* C3: get_neighbors returns exactly the members of the population at a     *)
(* distance d with 0 < d < distance_ whose offset makes an angle below      *)
(* view_angle_ with the subject's velocity; a bird is never its own         *)
(* neighbour.                                                               *)
C3_NeighborsExact ==
    engine = "ok"
        => /\ \A i \in 1..Len(birds) : ExactNeighbors(birds[i])
           /\ ExactNeighbors(predator)
           /\ pc = "rules"
                => neighbors = SelectSeq(birds, LAMBDA other : Qualifies(Current, other))

C3_Witness ==
    /\ engine = "ok"
    /\ pc = "rules"
    /\ Len(birds) = 2
    /\ Len(neighbors) = 1
    /\ opts.view_angle = 90
    /\ \E i \in 1..Len(birds) :
          /\ get_neighbors(birds, birds[i], opts) = <<>>
          /\ \E j \in 1..Len(birds) :
                LET offset == VSub(birds[j].position, birds[i].position)
                IN  /\ Mag2(offset) > 0
                    /\ Mag2(offset) < opts.distance * opts.distance

(* C4: construction with a population size <= 0 or a negative weight or     *)
(* distance fails with InvalidConfiguration and yields no engine; a valid   *)
(* configuration never fails.  A failed assert is counted as that failure.  *)
C4_InvalidConfigurationRejected ==
    engine # "none"
        => IF AssertHolds(opts) THEN engine = "ok"
           ELSE engine \in {"InvalidConfiguration", "aborted"}

(* C5: after construction with population size n and after any number of    *)
(* steps, size() is n; the predator is not stored in the population.        *)
C5_SizeFixed ==
    /\ engine = "ok" => size = opts.number
    /\ engine # "ok" => size = 0

C5_Witness ==
    /\ StepDone
    /\ steps >= 2
    /\ opts.with_predator
    /\ size = 2

(* C6: every steering delta of a bird is computed from the bird's velocity  *)
(* as it was before any delta of the step was committed.                    *)
C6_DeltasFromUncommittedVelocity ==
    (Processing /\ pc = "speeding")
        => Current.velocity =
             VAdd(VAdd(VAdd(VAdd(Subject0.velocity,
                  apply_separation(neighbors, Subject0, opts.separation_distance,
                                   opts.separation)),
                  IF neighbors = <<>> THEN Zero
                  ELSE apply_alignment(neighbors, Subject0, opts.alignment)),
                  IF neighbors = <<>> THEN Zero
                  ELSE apply_cohesion(neighbors, Subject0, opts.cohesion)),
                  IF opts.with_predator
                  THEN avoid_predator(birds, Subject0, counter, predator,
                                      opts.separation_distance, opts.view_angle)
                  ELSE Zero)

(* C7: one bird, no predator, speed within [2, 5], position away from the   *)
(* edges: one step leaves the velocity unchanged and moves the position by  *)
(* velocity * 0.9.                                                          *)
C7_SingleBirdStep ==
    C7_Case
        => /\ birds[1].velocity = pre.birds[1].velocity
           /\ birds[1] = Moved(pre.birds[1])

C7_Witness ==
    /\ C7_Case
    /\ steps >= 2
    /\ birds[1].position # pre.birds[1].position

(* C8: when every bird has the same velocity v, calculate_statistics        *)
(* returns mean_velocity v and stdev_velocity (0, 0); the deviation per     *)
(* axis is the square root of the sum of squared differences from the mean  *)
(* divided by N.                                                            *)
C8_Statistics ==
    (engine = "ok" /\ stats.valid /\ Len(birds) > 0)
        => /\ ~stats.nan
           /\ stats.mean_velocity = VDiv(SumVelocities(birds), Len(birds))
           /\ LET sq == SumSquares(birds, stats.mean_velocity)
              IN  stats.stdev_velocity =
                    Vector2(Sqrt(RoundDiv(sq.x, Len(birds))),
                            Sqrt(RoundDiv(sq.y, Len(birds))))
           /\ SameVelocity
                => /\ stats.mean_velocity = birds[1].velocity
                   /\ stats.stdev_velocity = Zero

C8_Witness ==
    /\ engine = "ok"
    /\ stats.valid
    /\ Len(birds) = 2
    /\ SameVelocity
    /\ steps > 0

(* C9: for each bird the three flocking deltas are accumulated iff it has   *)
(* neighbours, the predator delta iff predator mode is on, with or without  *)
(* neighbours; then speed clamping, boundary avoidance and integration run  *)
(* in that order, once per bird and step.                                   *)
C9_StepOrder ==
    /\ Processing
         => /\ counter < Len(birds)
            /\ \A j \in 1..Len(birds) : j > counter + 1 => birds[j] = pre.birds[j]
            /\ pc \in {"neighbors", "rules"} => Current = Subject0
            /\ pc = "predator" => Current = AfterRules(Subject0, neighbors)
            /\ pc = "speeding" => Current = AfterPredator(Subject0, neighbors, predator)
            /\ pc = "boundaries" => Current = AfterSpeeding(Subject0, neighbors, predator)
            /\ pc = "integrate" => Current = AfterBoundaries(Subject0, neighbors, predator)
    /\ (engine = "ok" /\ steps > 0 /\ counter > 0 /\ pc \in {"idle", "neighbors"})
         => birds[counter] =
              LET c == counter - 1
                  r == AfterRules(pre.birds[counter], neighbors)
                  a == IF opts.with_predator
                       THEN Bird(r.position,
                                 VAdd(r.velocity,
                                      avoid_predator(birds, r, c, predator,
                                                     opts.separation_distance,
                                                     opts.view_angle)))
                       ELSE r
              IN  Moved(avoid_boundaries(avoid_speeding(a, 5 * Unit, 2 * Unit),
                                         opts.canvas_width, opts.canvas_height))
    /\ StepDone => counter = Len(birds)

C9_Witness ==
    /\ StepDone
    /\ counter = 2
    /\ opts.with_predator
    /\ neighbors # <<>>
    /\ opts.separation > 0
    /\ birds[2].velocity # pre.birds[2].velocity

(* C10: without a predator no step modifies predator_, and no bird's        *)
(* velocity or position depends on it: evolve_predator has no effect and    *)
(* avoid_predator is not applied.                                           *)
C10_NoPredatorNoEffect ==
    (engine = "ok" /\ ~opts.with_predator)
        => /\ predator = DefaultBird
           /\ predator = pre.predator
           /\ (Processing /\ pc = "speeding")
                => Current = AfterRules(Subject0, neighbors)

C10_Witness ==
    /\ Processing
    /\ ~opts.with_predator
    /\ pc = "speeding"
    /\ steps >= 2
    /\ avoid_predator(birds, Current, counter, predator, opts.separation_distance,
                      opts.view_angle) # Zero

====
